---- MODULE Spec2Model ----
(***************************************************************************)
(* Model of the bookshop backend (src/backend/app.py, models.py, seed.py): *)
(* the relational state behind the HTTP handlers and one action per        *)
(* handler.  A handler is one atomic step: it reads the committed          *)
(* database, builds its unit of work in the ORM session, and either        *)
(* commits it or raises, in which case the session is rolled back and the  *)
(* request is answered 500.                                                *)
(*                                                                         *)
(* JSON request fields are optional values: None when the key is absent,   *)
(* Some(v) when present.  E-mail addresses are sequences of one-character  *)
(* strings so that the address pattern is computed, not assumed.           *)
(*                                                                         *)
(* reqs holds the requests that are in flight when two requests overlap:   *)
(* there a handler runs as its separate database steps (its query, its     *)
(* session changes, its commit).                                           *)
(***************************************************************************)
EXTENDS Integers, Sequences, FiniteSets, TLC

VARIABLES db, client_token, now, session, resp, reqs

vars == <<db, client_token, now, session, resp, reqs>>

---------------------------------------------------------------------------
(* Bounds of the model *)

\* users, carts, orders and transactions written by the seed script
\* (seed.py writes five of each; the model keeps the first NumSeed)
NumSeed == 2

\* the user table holds the seeded users and the users registered with the
\* one unused valid address of EmailInputs
MaxUsers == NumSeed + 1

---------------------------------------------------------------------------
(* Optional values *)

None == <<>>

Some(v) == <<v>>

Range(s) == {s[i] : i \in DOMAIN s}

\* Python truthiness of an optional string / integer field: `not x`
FalsyStr(x) == x = None \/ x[1] = ""

FalsySeq(x) == x = None \/ x[1] = <<>>

FalsyInt(x) == x = None \/ x[1] = 0

---------------------------------------------------------------------------
(* E-mail pattern  ^[a-zA-Z0-9_.+-]+@[a-zA-Z0-9-]+\.[a-zA-Z0-9-.]+$ *)

Alnum == {"a", "b", "c", "d", "x", "1"}

LocalChars == Alnum \cup {"_", ".", "+", "-"}

DomainChars == Alnum \cup {"-"}

TailChars == Alnum \cup {"-", "."}

\* the whole of s is  local+ "@" domain+ "." tail+
FullMatch(s) ==
    \E i \in 1..Len(s), j \in 1..Len(s) :
        /\ s[i] = "@"
        /\ i > 1
        /\ \A k \in 1..(i - 1) : s[k] \in LocalChars
        /\ j > i + 1
        /\ s[j] = "."
        /\ \A k \in (i + 1)..(j - 1) : s[k] \in DomainChars
        /\ j < Len(s)
        /\ \A k \in (j + 1)..Len(s) : s[k] \in TailChars

\* re.match with a trailing $: $ also matches just before a final newline
re_match_valid_email(s) ==
    \/ FullMatch(s)
    \/ /\ Len(s) > 0
       /\ s[Len(s)] = "\n"
       /\ FullMatch(SubSeq(s, 1, Len(s) - 1))

\* User.validate_email: TRUE when the address is accepted, FALSE when
\* ValueError("Invalid email") is raised
validate_email(email) == re_match_valid_email(email)

---------------------------------------------------------------------------
(* Password credential *)

\* bcrypt.generate_password_hash: a one-way digest; the salt is stored in the
\* digest and reused by the check, so it is left out of the model
generate_password_hash(password) == <<"$2b$", password>>

check_password_hash(pw_hash, password) == generate_password_hash(password) = pw_hash

check_password_nonempty(user, password) == password # ""

\* User.check_password
check_password(user, password) == check_password_hash(user.password_hash, password)

---------------------------------------------------------------------------
(* Input domains *)

SeedEmails ==
    << <<"a", "@", "x", ".", "c">>,
       <<"b", "@", "x", ".", "c">>,
       <<"c", "@", "x", ".", "c">> >>

NewEmail == <<"d", "@", "x", ".", "c">>

BadEmails == { <<"d", "@", "x">> }

EmailInputs ==
    {None, Some(SeedEmails[1]), Some(NewEmail)} \cup {Some(e) : e \in BadEmails}

NameInputs == {None, Some(""), Some("Al"), Some("Bo")}

PasswordInputs == {None, Some("pw1"), Some("pw2")}

SeedPassword == "pw1"

Books == 1..NumSeed

BookIdInputs == {None, Some(1), Some(NumSeed + 1)}

QuantityInputs == {None, Some(0), Some(2), Some(-1), Some(11)}

AmountInputs == {None, Some(0), Some(100), Some(-5)}

\* an id that names no user in any state
GhostId == MaxUsers + 1

SessionInputs == {None, Some(1), Some(GhostId)}

---------------------------------------------------------------------------
(* The database as the seed script leaves it *)

SeedNames == <<"Al", "Bo", "Ch">>

SeedStatuses == <<"Pending", "Shipped", "Delivered">>

SeedAmounts == <<100, 200, 300>>

SeedTxStatuses == <<"Completed", "Pending", "Failed">>

SeedUser(i, admins) ==
    [id |-> i, name |-> SeedNames[i], email |-> SeedEmails[i],
     password_hash |-> generate_password_hash(SeedPassword),
     is_admin |-> (i \in admins)]

SeedOrder(i) == [id |-> i, user_id |-> i, status |-> SeedStatuses[i]]

SeedCart(i) == [id |-> i, user_id |-> i]

SeedTransaction(i) ==
    [id |-> i, user_id |-> i, amount |-> SeedAmounts[i],
     mpesa_receipt |-> Some(i), status |-> SeedTxStatuses[i]]

SeedBorrowing_overdue(i) ==
    [id |-> i, user_id |-> i, book_id |-> (i % NumSeed) + 1,
     borrow_date |-> 0 - (i - 1), due_date |-> 0 - 7, return_date |-> None]

\* dates in days relative to the moment the seed script runs
SeedBorrowing(i) ==
    [id |-> i, user_id |-> i, book_id |-> (i % NumSeed) + 1,
     borrow_date |-> 0 - (i - 1), due_date |-> 7, return_date |-> None]

SeedStocks == <<5, 10, 7>>

\* prices in cents
SeedPrices == <<1099, 899, 1599>>

\* is_available_for_borrowing is left to its column default
SeedBook(i) ==
    [id |-> i, stock |-> SeedStocks[i], price |-> SeedPrices[i],
     is_available_for_borrowing |-> TRUE]

SeedItemBooks == <<1, 3, 2>>

SeedItemQuantities == <<2, 1, 4>>

SeedCartItem(i) ==
    [id |-> i, cart_id |-> i, book_id |-> SeedItemBooks[i],
     quantity |-> SeedItemQuantities[i]]

\* seed.py sets no admin flag; `admins` are the users the operator has
\* flagged in the users table since
SeedDb(admins) ==
    [users        |-> [i \in 1..NumSeed |-> SeedUser(i, admins)],
     books        |-> [i \in 1..NumSeed |-> SeedBook(i)],
     carts        |-> [i \in 1..NumSeed |-> SeedCart(i)],
     cart_items   |-> [i \in 1..NumSeed |-> SeedCartItem(i)],
     orders       |-> [i \in 1..NumSeed |-> SeedOrder(i)],
     order_books  |-> {},
     transactions |-> [i \in 1..NumSeed |-> SeedTransaction(i)],
     borrowings   |-> [i \in 1..NumSeed |-> SeedBorrowing(i)]]

---------------------------------------------------------------------------
(* Queries *)

\* User.query.get(id): the row, or None
UserGet(d, id) == IF id \in DOMAIN d.users THEN Some(d.users[id]) ELSE None

\* Book.query.get(id)
BookGet(id) == IF id \in Books THEN Some(id) ELSE None

\* <Model>.query.filter_by(...).first(): of the rows matched (hits, their
\* ids), the one of lowest id
First(rows, hits) ==
    IF hits = {} THEN None
    ELSE Some(rows[CHOOSE i \in hits : \A j \in hits : i <= j])

\* User.query.filter_by(email=email).first(); an absent e-mail selects
\* the rows whose email IS NULL, of which there are none
UserByEmail(d, email) ==
    IF email = None THEN None
    ELSE First(d.users, {i \in DOMAIN d.users : d.users[i].email = email[1]})

\* cart.items: the CartItem rows of the cart
Cart_items(d, cart) == {it \in Range(d.cart_items) : it.cart_id = cart.id}

CartByUser_any(d, user_id) == First(d.carts, DOMAIN d.carts)

\* Cart.query.filter_by(user_id=user_id).first()
CartByUser(d, user_id) ==
    First(d.carts, {i \in DOMAIN d.carts : d.carts[i].user_id = user_id})

---------------------------------------------------------------------------
(* Table constraints, checked when a row is written *)

users_insert_no_unique(d, user) == TRUE

\* users: name, email and password_hash NOT NULL, email UNIQUE
users_insert_ok(d, user) ==
    \A u \in Range(d.users) : u.email # user.email

\* order_books: order_id and book_id form the primary key (so NOT NULL)
order_books_insert_nullable(rows, row) ==
    \A r \in rows : ~(r.order_id = row.order_id /\ r.book_id = row.book_id)

order_books_insert_ok(rows, row) ==
    /\ row.order_id # None
    /\ row.book_id # None
    /\ \A r \in rows : ~(r.order_id = row.order_id /\ r.book_id = row.book_id)

mpesa_insert_nullable(d, t) ==
    \A r \in Range(d.transactions) :
        r.mpesa_receipt = None \/ r.mpesa_receipt # t.mpesa_receipt

\* mpesa_transactions: mpesa_receipt NOT NULL and UNIQUE
mpesa_insert_ok(d, t) ==
    /\ t.mpesa_receipt # None
    /\ \A r \in Range(d.transactions) : r.mpesa_receipt # t.mpesa_receipt

---------------------------------------------------------------------------
(* Responses: the last request and its answer *)

NoResp ==
    [op |-> "none", status |-> 0, error |-> "", uid |-> None, token |-> None,
     name |-> None, email |-> None, password |-> None, book_id |-> None,
     quantity |-> None, amount |-> None, body |-> None, access_token |-> None,
     order_id |-> None, new_status |-> None, result_code |-> None]


\* what a handler returns: the HTTP answer and the database it leaves
Reply(status, error, body, d) ==
    [status |-> status, error |-> error, body |-> body, db |-> d]

---------------------------------------------------------------------------
(* Access tokens *)

\* timedelta(hours=1)
HoursToExpire == 1

JWT_ACCESS_TOKEN_EXPIRES_doubled == 2 * HoursToExpire

\* the token lifetime, in hours (the unit of the clock)
JWT_ACCESS_TOKEN_EXPIRES == HoursToExpire

\* create_access_token(identity=...): the claims of the signed token
create_access_token(identity, t) == [identity |-> identity, iat |-> t]

\* @jwt_required() followed by get_jwt_identity(): the identity of a present,
\* unexpired token; None when the request is refused with 401
jwt_required(token, t) ==
    IF token = None THEN None
    ELSE IF t >= token[1].iat + JWT_ACCESS_TOKEN_EXPIRES THEN None
    ELSE Some(token[1].identity)

Unauthorized(token, d) ==
    Reply(401, IF token = None THEN "Missing Authorization Header"
               ELSE "Token has expired", None, d)

---------------------------------------------------------------------------
(* Register.post *)

email_exists_first_row(d, email) == d.users[1].email = email

\* User.query.filter_by(email=email).first() is truthy
email_exists(d, email) == UserByEmail(d, Some(email)) # None

register_missing_fields_none_only(name, email, password) ==
    name = None \/ email = None \/ password = None

\* `not name or not email or not password`
register_missing_fields(name, email, password) ==
    FalsyStr(name) \/ FalsySeq(email) \/ FalsyStr(password)

Register_post_check_renames(d, name, email, password) ==
    IF register_missing_fields(name, email, password)
    THEN Some(Reply(400, "Missing required fields", None, d))
    ELSE IF email_exists(d, email[1])
    THEN Some(Reply(400, "Email already exists", None,
                    [d EXCEPT !.users[UserByEmail(d, email)[1].id].name =
                                  name[1]]))
    ELSE None

\* lines 62-71, up to the look-up of the e-mail: the refusal, or None when
\* the request goes on
Register_post_check(d, name, email, password) ==
    IF register_missing_fields(name, email, password)
    THEN Some(Reply(400, "Missing required fields", None, d))
    ELSE IF email_exists(d, email[1])
    THEN Some(Reply(400, "Email already exists", None, d))
    ELSE None

User_is_admin_default_true == TRUE

\* is_admin = db.Column(db.Boolean, default=False)
User_is_admin_default == FALSE

\* lines 73-78: build the User, add it and commit
Register_post_commit(d, name, email, password) ==
    IF ~validate_email(email[1])
    THEN Reply(500, "ValueError: Invalid email", None, d)
    ELSE LET user == [id |-> Len(d.users) + 1, name |-> name[1],
                      email |-> email[1],
                      password_hash |-> generate_password_hash(password[1]),
                      is_admin |-> User_is_admin_default]
         IN  IF ~users_insert_ok(d, user)
             THEN Reply(500, "IntegrityError", None, d)
             ELSE Reply(201, "", Some(user.id),
                        [d EXCEPT !.users = Append(@, user)])

Register_post(d, name, email, password) ==
    LET refused == Register_post_check(d, name, email, password)
    IN  IF refused # None THEN refused[1]
        ELSE Register_post_commit(d, name, email, password)

---------------------------------------------------------------------------
(* Login.post *)

\* `user and user.check_password(password)`; check_password raises on a
\* password that is not a string
Login_post(d, email, password, t) ==
    LET user == UserByEmail(d, email)
    IN  IF user = None
        THEN Reply(401, "Invalid credentials", None, d)
        ELSE IF password = None
        THEN Reply(500, "TypeError", None, d)
        ELSE IF check_password(user[1], password[1])
        THEN Reply(200, "", Some(create_access_token(user[1].id, t)), d)
        ELSE Reply(401, "Invalid credentials", None, d)

---------------------------------------------------------------------------
(* CartResource *)

\* CartResource.get
CartResource_get(d, user_id) ==
    LET cart == CartByUser(d, user_id)
    IN  IF cart = None
        THEN Reply(404, "No cart found for user", None, d)
        ELSE Reply(200, "", Some(cart[1]), d)

---------------------------------------------------------------------------
(* admin_check, UserOrders, UserBorrowings *)

admin_check_any_user(d, user_id) ==
    IF UserGet(d, user_id) # None
    THEN Reply(200, "User is an admin", None, d)
    ELSE Reply(403, "User is not an admin", None, d)

\* admin_check: `user and user.is_admin`, the user the token names
admin_check(d, user_id) ==
    LET user == UserGet(d, user_id)
    IN  IF user # None /\ user[1].is_admin
        THEN Reply(200, "User is an admin", None, d)
        ELSE Reply(403, "User is not an admin", None, d)

filter_by_user_id_all(rows, user_id) == {rows[i].id : i \in DOMAIN rows}

\* <Model>.query.filter_by(user_id=user_id).all(), as the ids of the rows
filter_by_user_id(rows, user_id) ==
    {rows[i].id : i \in {j \in DOMAIN rows : rows[j].user_id = user_id}}

\* UserOrders.get
UserOrders_get(d, user_id) ==
    Reply(200, "", Some(filter_by_user_id(d.orders, user_id)), d)

\* UserBorrowings.get
UserBorrowings_get(d, user_id) ==
    Reply(200, "", Some(filter_by_user_id(d.borrowings, user_id)), d)

missing_fields_none_only(book_id, quantity) == book_id = None \/ quantity = None

\* `not book_id or not quantity`
missing_fields(book_id, quantity) == FalsyInt(book_id) \/ FalsyInt(quantity)

\* the primary key of an object that was added to the session and has not
\* been flushed: Order(user_id=...) gets its id from the INSERT
unflushed_id == None

\* The unit of work of CartResource.post once the book is found: the
\* session holds a new cart (if the user has none) and a new order with
\* the book in order.books; the association row is inserted directly, with
\* the order's id as it is before any flush; commit then flushes the cart,
\* the order and the row of order.books (quantity by column default).
\* ok = FALSE when a statement raises IntegrityError: nothing is committed.
CartResource_post_commit_partial(d, makes_cart, user_id, book_id, quantity) ==
    LET new_carts == IF makes_cart
                     THEN <<[id |-> Len(d.carts) + 1, user_id |-> user_id]>>
                     ELSE <<>>
        order == [id |-> Len(d.orders) + 1, user_id |-> user_id,
                  status |-> "Pending"]
    IN  [ok |-> FALSE,
         db |-> [d EXCEPT !.carts = @ \o new_carts,
                          !.orders = Append(@, order)],
         order |-> None]

\* lines 158-175 on the database `d` of the moment of the commit;
\* makes_cart: the look-up of line 157 found no cart
CartResource_post_commit(d, makes_cart, user_id, book_id, quantity) ==
    LET new_carts == IF makes_cart
                     THEN <<[id |-> Len(d.carts) + 1, user_id |-> user_id]>>
                     ELSE <<>>
        order == [id |-> Len(d.orders) + 1, user_id |-> user_id,
                  status |-> "Pending"]
        row == [order_id |-> unflushed_id, book_id |-> Some(book_id),
                quantity |-> quantity]
        rel_row == [order_id |-> Some(order.id), book_id |-> Some(book_id),
                    quantity |-> 1]
    IN  IF ~order_books_insert_ok(d.order_books, row)
        THEN [ok |-> FALSE, db |-> d, order |-> None]
        ELSE IF ~order_books_insert_ok(d.order_books \cup {row}, rel_row)
        THEN [ok |-> FALSE, db |-> d, order |-> None]
        ELSE [ok |-> TRUE,
              db |-> [d EXCEPT !.carts = @ \o new_carts,
                               !.orders = Append(@, order),
                               !.order_books = @ \cup {row, rel_row}],
              order |-> Some(order.id)]

\* CartResource.post
\* lines 157-175 without another request in between
CartResource_post_txn(d, user_id, book_id, quantity) ==
    CartResource_post_commit(d, CartByUser(d, user_id) = None, user_id,
                             book_id, quantity)

\* lines 148-154: the refusal, or None when the request goes on
CartResource_post_check(d, book_id, quantity) ==
    IF missing_fields(book_id, quantity)
    THEN Some(Reply(400, "Missing required fields", None, d))
    ELSE IF BookGet(book_id[1]) = None
    THEN Some(Reply(404, "Book not found", None, d))
    ELSE None

CartResource_post_adds_item(d, user_id, book_id, quantity) ==
    LET refused == CartResource_post_check(d, book_id, quantity)
        cart == CartByUser(d, user_id)
    IN  IF refused # None THEN refused[1]
        ELSE IF cart = None THEN Reply(500, "IntegrityError", None, d)
        ELSE Reply(500, "IntegrityError", None,
                   [d EXCEPT !.cart_items =
                       Append(@, [id |-> Len(@) + 1, cart_id |-> cart[1].id,
                                  book_id |-> book_id[1],
                                  quantity |-> quantity[1]])])

CartResource_post(d, user_id, book_id, quantity) ==
    LET refused == CartResource_post_check(d, book_id, quantity)
    IN  IF refused # None THEN refused[1]
    ELSE LET txn == CartResource_post_txn(d, user_id, book_id[1], quantity[1])
         IN  IF txn.ok
             THEN Reply(201, "", txn.order, txn.db)
             ELSE Reply(500, "IntegrityError", None, txn.db)

---------------------------------------------------------------------------
(* MpesaTransactionResource.post *)

MpesaTransactionResource_post(d, user_id, amount) ==
    IF FalsyInt(amount)
    THEN Reply(400, "Amount is required", None, d)
    ELSE LET transaction == [id |-> Len(d.transactions) + 1,
                             user_id |-> user_id, amount |-> amount[1],
                             mpesa_receipt |-> None, status |-> "Pending"]
         IN  IF ~mpesa_insert_ok(d, transaction)
             THEN Reply(500, "IntegrityError", None, d)
             ELSE Reply(201, "", Some(transaction.id),
                        [d EXCEPT !.transactions = Append(@, transaction)])

---------------------------------------------------------------------------
(* callback_url *)

ResultCodeInputs == {None, Some(0), Some(1)}

callback_url_settles(d, result_code) ==
    IF result_code = None
    THEN Reply(500, "KeyError", None, d)
    ELSE Reply(200, "", None,
               [d EXCEPT !.transactions =
                   [i \in DOMAIN @ |->
                       IF @[i].status = "Pending"
                       THEN [@[i] EXCEPT !.status =
                                IF result_code[1] = 0 THEN "Completed"
                                ELSE "Failed"]
                       ELSE @[i]]])

\* callback_url: result_code is json_data["Body"]["stkCallback"]["ResultCode"],
\* None when the payload has no such key (KeyError or TypeError, uncaught);
\* otherwise a line is printed and the payload is echoed
callback_url(d, result_code) ==
    IF result_code = None
    THEN Reply(500, "KeyError", None, d)
    ELSE Reply(200, "", None, d)

---------------------------------------------------------------------------
(* Order.status *)

VALID_STATUSES == {"Pending", "Shipped", "Delivered", "Cancelled"}

validate_status_any(status) == TRUE

\* Order.validate_status: TRUE when the value is accepted, FALSE when
\* ValueError("Invalid order status") is raised
validate_status(status) == status \in VALID_STATUSES

StatusInputs == VALID_STATUSES \cup {"Bogus", ""}

\* order.status = status on the stored order `id`, then commit: the ORM runs
\* the validator on the assignment, before the attribute changes
Order_set_status(d, id, status) ==
    IF ~validate_status(status)
    THEN Reply(0, "Invalid order status", None, d)
    ELSE Reply(0, "", None, [d EXCEPT !.orders[id].status = status])

---------------------------------------------------------------------------
(* Admin listings *)

is_admin_unknown_user_passes(sess, d) ==
    IF FalsyInt(sess) THEN FALSE
    ELSE LET user == UserGet(d, sess[1])
         IN  IF user # None THEN user[1].is_admin ELSE TRUE

\* is_admin(): the identity is session['user_id'], not the token's
is_admin(sess, d) ==
    IF FalsyInt(sess) THEN FALSE
    ELSE LET user == UserGet(d, sess[1])
         IN  IF user # None THEN user[1].is_admin ELSE FALSE

Ids(rows) == {rows[i].id : i \in DOMAIN rows}

\* AdminUserList.get
AdminUserList_get(d, sess) ==
    IF ~is_admin(sess, d)
    THEN Reply(403, "Admin privileges required", None, d)
    ELSE Reply(200, "", Some(Ids(d.users)), d)

\* AdminTransactionList.get
AdminTransactionList_get(d, sess) ==
    IF ~is_admin(sess, d)
    THEN Reply(403, "Admin privileges required", None, d)
    ELSE Reply(200, "", Some(Ids(d.transactions)), d)

\* AdminBorrowingList.get
AdminBorrowingList_get(d, sess) ==
    IF ~is_admin(sess, d)
    THEN Reply(403, "Admin privileges required", None, d)
    ELSE Reply(200, "", Some(Ids(d.borrowings)), d)

---------------------------------------------------------------------------
(* Actions: one per request handler, and the clock *)

\* the clock stops one hour past the lifetime of a token issued at once
MaxTime == HoursToExpire + 1

\* a request carries no token, or the token the client holds
TokenInputs == {None, client_token}

Answer(op, r) ==
    [NoResp EXCEPT !.op = op, !.status = r.status, !.error = r.error,
                   !.body = r.body]

\* a handler behind @jwt_required(): refused with 401, or run as the
\* token's identity
Protected(op, token, r) ==
    LET uid == jwt_required(token, now)
        a == IF uid = None THEN Unauthorized(token, db) ELSE r
    IN  /\ db' = a.db
        /\ resp' = [Answer(op, a) EXCEPT !.token = token, !.uid = uid]

\* the two requests that may overlap
Procs == {"r1", "r2"}

Idle ==
    [kind |-> "none", pc |-> "idle", status |-> 0, user_id |-> None,
     name |-> None, email |-> None, password |-> None, book_id |-> None,
     quantity |-> None, found_cart |-> FALSE, makes_cart |-> FALSE]

NoReqs == [p \in Procs |-> Idle]

\* The seeded database, user 1 flagged admin or not; the client holds no
\* token and its session cookie carries no user_id (no handler stores one)
Init ==
    /\ \E admins \in SUBSET {1} : db = SeedDb(admins)
    /\ client_token = None
    /\ now = 0
    /\ session = None
    /\ resp = NoResp
    /\ reqs = NoReqs

\* as Init, with the argument of is_admin() drawn from SessionInputs: the
\* client's signed session cookie carries any user_id, or none
InitSession ==
    /\ \E admins \in SUBSET {1} : db = SeedDb(admins)
    /\ client_token = None
    /\ now = 0
    /\ session \in SessionInputs
    /\ resp = NoResp
    /\ reqs = NoReqs

Register(name, email, password) ==
    LET r == Register_post(db, name, email, password)
    IN  /\ db' = r.db
        /\ resp' = [Answer("Register", r) EXCEPT !.name = name,
                        !.email = email, !.password = password]
        /\ UNCHANGED <<client_token, now, session, reqs>>

Login(email, password) ==
    LET r == Login_post(db, email, password, now)
    IN  /\ client_token' = IF r.status = 200 THEN r.body ELSE client_token
        /\ db' = r.db
        /\ resp' = [Answer("Login", r) EXCEPT !.email = email,
                        !.password = password, !.access_token = r.body,
                        !.body = None]
        /\ UNCHANGED <<now, session, reqs>>

CartGet(token) ==
    /\ Protected("CartGet", token,
                 CartResource_get(db, jwt_required(token, now)[1]))
    /\ UNCHANGED <<client_token, now, session, reqs>>

CartPost(token, book_id, quantity) ==
    LET uid == jwt_required(token, now)
        a == IF uid = None THEN Unauthorized(token, db)
             ELSE CartResource_post(db, uid[1], book_id, quantity)
    IN  /\ db' = a.db
        /\ resp' = [Answer("CartPost", a) EXCEPT !.token = token,
                        !.uid = uid, !.book_id = book_id,
                        !.quantity = quantity]
        /\ UNCHANGED <<client_token, now, session, reqs>>

MpesaPost(token, amount) ==
    LET uid == jwt_required(token, now)
        a == IF uid = None THEN Unauthorized(token, db)
             ELSE MpesaTransactionResource_post(db, uid[1], amount)
    IN  /\ db' = a.db
        /\ resp' = [Answer("MpesaPost", a) EXCEPT !.token = token,
                        !.uid = uid, !.amount = amount]
        /\ UNCHANGED <<client_token, now, session, reqs>>

AdminUserList(token) ==
    /\ Protected("AdminUserList", token, AdminUserList_get(db, session))
    /\ UNCHANGED <<client_token, now, session, reqs>>

AdminTransactionList(token) ==
    /\ Protected("AdminTransactionList", token,
                 AdminTransactionList_get(db, session))
    /\ UNCHANGED <<client_token, now, session, reqs>>

AdminBorrowingList(token) ==
    /\ Protected("AdminBorrowingList", token,
                 AdminBorrowingList_get(db, session))
    /\ UNCHANGED <<client_token, now, session, reqs>>

AdminCheck(token) ==
    /\ Protected("AdminCheck", token,
                 admin_check(db, jwt_required(token, now)[1]))
    /\ UNCHANGED <<client_token, now, session, reqs>>

UserOrders(token) ==
    /\ Protected("UserOrders", token,
                 UserOrders_get(db, jwt_required(token, now)[1]))
    /\ UNCHANGED <<client_token, now, session, reqs>>

UserBorrowings(token) ==
    /\ Protected("UserBorrowings", token,
                 UserBorrowings_get(db, jwt_required(token, now)[1]))
    /\ UNCHANGED <<client_token, now, session, reqs>>

\* AdminLogout.post: session.pop('user_id', None)
AdminLogout ==
    /\ session' = None
    /\ resp' = [NoResp EXCEPT !.op = "AdminLogout", !.status = 200]
    /\ UNCHANGED <<db, client_token, now, reqs>>

\* POST /callback-url: no token is asked for
Callback(result_code) ==
    LET r == callback_url(db, result_code)
    IN  /\ db' = r.db
        /\ resp' = [Answer("Callback", r) EXCEPT !.result_code = result_code]
        /\ UNCHANGED <<client_token, now, session, reqs>>

\* time passes between requests
Tick ==
    /\ now < MaxTime
    /\ now' = now + 1
    /\ resp' = NoResp
    /\ UNCHANGED <<db, client_token, session, reqs>>

Next ==
    \/ \E name \in NameInputs, email \in EmailInputs,
          password \in PasswordInputs : Register(name, email, password)
    \/ \E email \in EmailInputs, password \in PasswordInputs :
          Login(email, password)
    \/ \E token \in TokenInputs : CartGet(token)
    \/ \E token \in TokenInputs, book_id \in BookIdInputs,
          quantity \in QuantityInputs : CartPost(token, book_id, quantity)
    \/ \E token \in TokenInputs, amount \in AmountInputs :
          MpesaPost(token, amount)
    \/ \E token \in TokenInputs : AdminUserList(token)
    \/ \E token \in TokenInputs : AdminTransactionList(token)
    \/ \E token \in TokenInputs : AdminBorrowingList(token)
    \/ \E token \in TokenInputs : AdminCheck(token)
    \/ \E token \in TokenInputs : UserOrders(token)
    \/ \E token \in TokenInputs : UserBorrowings(token)
    \/ \E result_code \in ResultCodeInputs : Callback(result_code)
    \/ AdminLogout
    \/ Tick

Spec == Init /\ [][Next]_vars

\* an assignment to the status of a stored order, through the ORM
AssignStatus(id, status) ==
    LET r == Order_set_status(db, id, status)
    IN  /\ db' = r.db
        /\ resp' = [Answer("AssignStatus", r) EXCEPT !.order_id = Some(id),
                        !.new_status = Some(status)]
        /\ UNCHANGED <<client_token, now, session, reqs>>

\* orders: the requests that touch them, and assignments to their status
NextOrders ==
    \/ \E email \in EmailInputs, password \in PasswordInputs :
          Login(email, password)
    \/ \E token \in TokenInputs, book_id \in BookIdInputs,
          quantity \in QuantityInputs : CartPost(token, book_id, quantity)
    \/ \E id \in DOMAIN db.orders, status \in StatusInputs :
          AssignStatus(id, status)

SpecOrders == Init /\ [][NextOrders]_vars

---------------------------------------------------------------------------
(* Two requests served at the same time, each with its own database
   session: a handler is cut where it reads or writes the database *)

Free(p) == reqs[p].pc \in {"idle", "done"}

At(p, kind, pc) == reqs[p].kind = kind /\ reqs[p].pc = pc

Done(p, status) ==
    reqs' = [reqs EXCEPT ![p].pc = "done", ![p].status = status]

RaceNames == {Some("Al")}

RaceEmails == {Some(SeedEmails[1]), Some(NewEmail)}

RacePasswords == {Some("pw1")}

RaceQuantities == {Some(2)}

RaceBookIds == {None} \cup {Some(b) : b \in Books}

\* a Register request arrives
StartRegister(p, name, email, password) ==
    /\ Free(p)
    /\ reqs' = [reqs EXCEPT ![p] = [Idle EXCEPT !.kind = "Register",
                     !.pc = "check", !.name = name, !.email = email,
                     !.password = password]]
    /\ UNCHANGED <<db, client_token, now, session, resp>>

\* lines 62-71: the fields and the look-up of the e-mail
RegisterCheck(p) ==
    /\ At(p, "Register", "check")
    /\ LET refused == Register_post_check(db, reqs[p].name, reqs[p].email,
                                          reqs[p].password)
       IN  IF refused # None THEN Done(p, refused[1].status)
           ELSE reqs' = [reqs EXCEPT ![p].pc = "commit"]
    /\ UNCHANGED <<db, client_token, now, session, resp>>

\* lines 73-78: the INSERT and the commit, or the exception and the
\* rollback
RegisterCommit(p) ==
    /\ At(p, "Register", "commit")
    /\ LET r == Register_post_commit(db, reqs[p].name, reqs[p].email,
                                     reqs[p].password)
       IN  db' = r.db /\ Done(p, r.status)
    /\ UNCHANGED <<client_token, now, session, resp>>

\* an add_to_cart request arrives with a valid token of user_id
StartCartPost(p, user_id, book_id, quantity) ==
    /\ Free(p)
    /\ UserGet(db, user_id) # None
    /\ reqs' = [reqs EXCEPT ![p] = [Idle EXCEPT !.kind = "CartPost",
                     !.pc = "read", !.user_id = Some(user_id),
                     !.book_id = book_id, !.quantity = quantity]]
    /\ UNCHANGED <<db, client_token, now, session, resp>>

\* lines 143-157: the fields, the book and the look-up of the cart
CartRead(p) ==
    /\ At(p, "CartPost", "read")
    /\ LET refused == CartResource_post_check(db, reqs[p].book_id,
                                              reqs[p].quantity)
       IN  IF refused # None THEN Done(p, refused[1].status)
           ELSE reqs' = [reqs EXCEPT ![p].pc = "create",
                            ![p].found_cart =
                                CartByUser(db, reqs[p].user_id[1]) # None]
    /\ UNCHANGED <<db, client_token, now, session, resp>>

\* lines 158-167: the Cart, if none was found, and the Order are added to
\* the request's session; nothing is written yet
CartCreate(p) ==
    /\ At(p, "CartPost", "create")
    /\ reqs' = [reqs EXCEPT ![p].pc = "commit",
                            ![p].makes_cart = ~reqs[p].found_cart]
    /\ UNCHANGED <<db, client_token, now, session, resp>>

\* lines 171-177: the INSERT into order_books and the commit, or the
\* exception and the rollback
CartCommit(p) ==
    /\ At(p, "CartPost", "commit")
    /\ LET txn == CartResource_post_commit(db, reqs[p].makes_cart,
                       reqs[p].user_id[1], reqs[p].book_id[1],
                       reqs[p].quantity[1])
       IN  db' = txn.db /\ Done(p, IF txn.ok THEN 201 ELSE 500)
    /\ UNCHANGED <<client_token, now, session, resp>>

NextConcurrent ==
    \/ \E p \in Procs, name \in RaceNames, email \in RaceEmails,
          password \in RacePasswords : StartRegister(p, name, email, password)
    \/ \E p \in Procs : RegisterCheck(p)
    \/ \E p \in Procs : RegisterCommit(p)
    \/ \E p \in Procs, user_id \in 1..MaxUsers, book_id \in RaceBookIds,
          quantity \in RaceQuantities :
          StartCartPost(p, user_id, book_id, quantity)
    \/ \E p \in Procs : CartRead(p)
    \/ \E p \in Procs : CartCreate(p)
    \/ \E p \in Procs : CartCommit(p)

SpecConcurrent == Init /\ [][NextConcurrent]_vars

SpecSession == InitSession /\ [][Next]_vars

\* the database exactly as the seed script leaves it (no admin), the
\* session cookie carrying any user_id, or none
InitSeed ==
    /\ db = SeedDb({})
    /\ client_token = None
    /\ now = 0
    /\ session \in SessionInputs
    /\ resp = NoResp
    /\ reqs = NoReqs

SpecSeed == InitSeed /\ [][Next]_vars

---------------------------------------------------------------------------
(* Claims *)

ProtectedOps ==
    {"CartGet", "CartPost", "MpesaPost", "AdminUserList",
     "AdminTransactionList", "AdminBorrowingList", "AdminCheck",
     "UserOrders", "UserBorrowings"}

AdminOps == {"AdminUserList", "AdminTransactionList", "AdminBorrowingList"}

Unchanged == db' = db /\ client_token' = client_token /\ session' = session

\* C1: a Register request that carries a name and a password and the e-mail
\* of an existing user is answered 400 "Email already exists", whatever the
\* name and password, and leaves the database (the existing user's record
\* included) as it was.
C1_DuplicateEmailConflict ==
    [][ ( /\ resp'.op = "Register"
          /\ ~FalsyStr(resp'.name) /\ ~FalsyStr(resp'.password)
          /\ resp'.email # None
          /\ \E u \in Range(db.users) : u.email = resp'.email[1] )
        => ( /\ resp'.status = 400
             /\ resp'.error = "Email already exists"
             /\ db' = db ) ]_vars

\* the second of two registrations with one address, under another name and
\* another password, has been refused
C1_Witness ==
    /\ resp.op = "Register" /\ resp.status = 400
    /\ resp.error = "Email already exists"
    /\ \E u \in Range(db.users) :
          /\ u.id > NumSeed
          /\ u.email = resp.email[1]
          /\ u.name # resp.name[1]
          /\ u.password_hash # generate_password_hash(resp.password[1])

\* C2: an add_to_cart with a valid token, an existing book and a quantity,
\* by a user without a cart, is answered 201 and commits a cart of the user,
\* a new order of the user and exactly one order_books row for that order
\* and book, its quantity the requested one.
C2_AddToCartCommitsOrderRow ==
    [][ ( /\ resp'.op = "CartPost" /\ resp'.uid # None
          /\ ~FalsyInt(resp'.book_id) /\ ~FalsyInt(resp'.quantity)
          /\ BookGet(resp'.book_id[1]) # None
          /\ CartByUser(db, resp'.uid[1]) = None )
        => ( /\ resp'.status = 201
             /\ CartByUser(db', resp'.uid[1]) # None
             /\ \E o \in Range(db'.orders) \ Range(db.orders) :
                   /\ o.user_id = resp'.uid[1]
                   /\ LET rows == {r \in db'.order_books :
                                     /\ r.order_id = Some(o.id)
                                     /\ r.book_id = resp'.book_id}
                      IN  /\ Cardinality(rows) = 1
                          /\ \A r \in rows : r.quantity = resp'.quantity[1] )
      ]_vars

\* C3: an admin listing requested with an unexpired token that a login
\* issued to a user whose is_admin flag is set is answered 200 with the
\* full list.
C3_AdminTokenGetsListing ==
    ( /\ resp.op \in AdminOps /\ resp.uid # None
      /\ UserGet(db, resp.uid[1]) # None
      /\ UserGet(db, resp.uid[1])[1].is_admin )
    => ( /\ resp.status = 200
         /\ resp.body = Some(Ids(CASE resp.op = "AdminUserList" -> db.users
                                   [] resp.op = "AdminTransactionList"
                                        -> db.transactions
                                   [] OTHER -> db.borrowings)) )

\* the identity the admin listings test: session['user_id'] names an
\* existing user whose flag is set
SessionNamesAdmin ==
    /\ session # None
    /\ UserGet(db, session[1]) # None
    /\ UserGet(db, session[1])[1].is_admin

\* C4: when the identity is missing, names no existing user or names a user
\* whose flag is false, an admin listing returns no data, and a request that
\* passed the token check is answered 403.
C4_NonAdminForbidden ==
    (resp.op \in AdminOps /\ ~SessionNamesAdmin)
    => ( /\ resp.body = None
         /\ resp.status \in {401, 403}
         /\ (resp.uid # None => resp.status = 403) )

\* a token-bearing request whose session names a user that does not exist
\* has been refused
C4_Witness ==
    /\ resp.op \in AdminOps /\ resp.uid # None /\ resp.status = 403
    /\ session = Some(GhostId)

\* C5: a Register request with name, e-mail and password present and an
\* e-mail that does not match the pattern is answered 400 and creates no
\* user.
C5_InvalidEmailIs400 ==
    [][ ( /\ resp'.op = "Register"
          /\ ~FalsyStr(resp'.name) /\ ~FalsyStr(resp'.password)
          /\ ~FalsySeq(resp'.email)
          /\ ~re_match_valid_email(resp'.email[1]) )
        => (resp'.status = 400 /\ db' = db) ]_vars

\* C6: record_transaction by an authenticated user with an amount stores
\* exactly one new transaction of that user, with that amount and status
\* Pending, and is answered 201; without an amount it is answered 400 and
\* stores nothing.
C6_RecordTransaction ==
    [][ (resp'.op = "MpesaPost" /\ resp'.uid # None)
        => IF FalsyInt(resp'.amount)
           THEN resp'.status = 400 /\ db' = db
           ELSE /\ resp'.status = 201
                /\ Len(db'.transactions) = Len(db.transactions) + 1
                /\ SubSeq(db'.transactions, 1, Len(db.transactions))
                      = db.transactions
                /\ LET t == db'.transactions[Len(db'.transactions)]
                   IN  /\ t.user_id = resp'.uid[1]
                       /\ t.amount = resp'.amount[1]
                       /\ t.status = "Pending" ]_vars

\* C7: every row of order_books has quantity >= 1.
C7_QuantityAtLeastOne == \A r \in db.order_books : r.quantity >= 1

\* an add_to_cart of a negative quantity of an existing book has been
\* handled past its checks
C7_Witness ==
    /\ resp.op = "CartPost" /\ resp.uid # None
    /\ resp.book_id = Some(1) /\ resp.quantity = Some(-1)
    /\ resp.status \notin {400, 401, 404}

\* C8: add_to_cart by an authenticated user is answered 400 when book_id or
\* quantity is missing or zero and 404 when book_id names no book, and then
\* changes nothing in the database.
C8_AddToCartRejects ==
    [][ (resp'.op = "CartPost" /\ resp'.uid # None)
        => /\ (FalsyInt(resp'.book_id) \/ FalsyInt(resp'.quantity))
                => (resp'.status = 400 /\ db' = db)
           /\ ( /\ ~FalsyInt(resp'.book_id) /\ ~FalsyInt(resp'.quantity)
                /\ resp'.book_id[1] \notin Books )
                => (resp'.status = 404 /\ db' = db) ]_vars

\* an add_to_cart of quantity 0 of an existing book has been refused
C8_Witness ==
    /\ resp.op = "CartPost" /\ resp.uid # None
    /\ resp.book_id = Some(1) /\ resp.quantity = Some(0)
    /\ resp.status = 400

C10_TokenLifetime ==
    [][ (resp'.op \in ProtectedOps /\ resp'.token # None)
        => IF now < resp'.token[1].iat + 1
           THEN /\ resp'.uid = Some(resp'.token[1].identity)
                /\ resp'.status # 401
           ELSE /\ resp'.status = 401
                /\ resp'.uid = None
                /\ Unchanged ]_vars

\* a request with a token older than an hour has been refused
C10_Witness ==
    /\ resp.op \in ProtectedOps /\ resp.token # None
    /\ now >= resp.token[1].iat + 1
    /\ resp.status = 401

\* C11: an add_to_cart that passes its checks leaves its user with exactly
\* one cart: it creates the cart when the user has none and keeps the
\* existing one otherwise.
C11_GetOrCreateCart ==
    [][ ( /\ resp'.op = "CartPost" /\ resp'.uid # None
          /\ ~FalsyInt(resp'.book_id) /\ ~FalsyInt(resp'.quantity)
          /\ resp'.book_id[1] \in Books )
        => LET mine(d) == {c \in Range(d.carts) : c.user_id = resp'.uid[1]}
           IN  /\ Cardinality(mine(db')) = 1
               /\ mine(db) # {} => mine(db') = mine(db) ]_vars

C13_TransactionsValid ==
    \A t \in Range(db.transactions) :
        t.amount > 0 /\ t.status \in {"Pending", "Completed", "Failed"}

\* a record_transaction of a negative amount has been handled past its
\* checks
C13_Witness ==
    /\ resp.op = "MpesaPost" /\ resp.uid # None
    /\ resp.amount = Some(-5)
    /\ resp.status \notin {400, 401}

\* C14: get_cart by an authenticated user is answered 404 exactly when no
\* cart has that user's id, otherwise 200 with a cart of that user; it
\* changes nothing.
C14_GetCart ==
    [][ (resp'.op = "CartGet" /\ resp'.uid # None)
        => LET mine == {c \in Range(db.carts) : c.user_id = resp'.uid[1]}
           IN  /\ Unchanged
               /\ resp'.status \in {200, 404}
               /\ resp'.status = 404 <=> mine = {}
               /\ mine # {} => (resp'.body # None /\ resp'.body[1] \in mine)
      ]_vars

\* a user without a cart has asked for it
C14_Witness ==
    /\ resp.op = "CartGet" /\ resp.uid # None /\ resp.status = 404
    /\ db.carts # <<>>

\* C15: /user/orders returns exactly the orders whose user_id is the
\* token's identity, and /user/borrowings exactly that user's borrowings.
C15_OwnListings ==
    /\ (resp.op = "UserOrders" /\ resp.uid # None)
       => ( /\ resp.status = 200
            /\ resp.body = Some({o.id : o \in {x \in Range(db.orders) :
                                               x.user_id = resp.uid[1]}}) )
    /\ (resp.op = "UserBorrowings" /\ resp.uid # None)
       => ( /\ resp.status = 200
            /\ resp.body = Some({b.id : b \in {x \in Range(db.borrowings) :
                                               x.user_id = resp.uid[1]}}) )

\* a user has listed their orders while another user has orders too
C15_Witness ==
    /\ resp.op = "UserOrders" /\ resp.uid # None /\ resp.status = 200
    /\ resp.body # Some({})
    /\ \E o \in Range(db.orders) : o.user_id # resp.uid[1]

\* C16: /admin_check with a valid token is answered 200 exactly when the
\* token's identity names an existing user whose is_admin flag is set, and
\* 403 otherwise; it changes nothing.
C16_AdminCheck ==
    [][ (resp'.op = "AdminCheck" /\ resp'.uid # None)
        => /\ Unchanged
           /\ resp'.status \in {200, 403}
           /\ resp'.status = 200
                <=> \E u \in Range(db.users) :
                       u.id = resp'.uid[1] /\ u.is_admin ]_vars

\* an admin has been told so
C16_Witness ==
    resp.op = "AdminCheck" /\ resp.uid # None /\ resp.status = 200

\* C17: every Order has a status among Pending, Shipped, Delivered,
\* Cancelled; an order that add_to_cart stores is Pending; assigning any
\* other value is refused with an error and leaves the status as it was,
\* and assigning one of the four sets it.
C17_OrderStatus ==
    /\ [](\A o \in Range(db.orders) :
            o.status \in {"Pending", "Shipped", "Delivered", "Cancelled"})
    /\ [][ /\ resp'.op = "CartPost"
              => \A i \in DOMAIN db'.orders \ DOMAIN db.orders :
                    db'.orders[i].status = "Pending"
           /\ resp'.op = "AssignStatus"
              => IF resp'.new_status[1] \in
                       {"Pending", "Shipped", "Delivered", "Cancelled"}
                 THEN /\ resp'.error = ""
                      /\ db'.orders[resp'.order_id[1]].status
                            = resp'.new_status[1]
                 ELSE /\ resp'.error = "Invalid order status"
                      /\ db' = db ]_vars

\* an assignment of a status outside the four has been refused
C17_Witness ==
    /\ resp.op = "AssignStatus"
    /\ resp.new_status = Some("Bogus")
    /\ resp.error = "Invalid order status"

\* C18: every Borrowing has due_date > borrow_date and, when it has one, a
\* return_date >= borrow_date; no request creates, changes or deletes a
\* Borrowing.
C18_Borrowings ==
    /\ [](\A b \in Range(db.borrowings) :
            /\ b.due_date > b.borrow_date
            /\ b.return_date # None => b.return_date[1] >= b.borrow_date)
    /\ [][db'.borrowings = db.borrowings]_vars

\* a user has been shown their borrowing
C18_Witness ==
    /\ resp.op = "UserBorrowings" /\ resp.status = 200
    /\ resp.body # None /\ resp.body # Some({})

\* C19: when two add_to_cart requests of one user, both started while the
\* user had no cart, have finished, at most one cart exists for that user.
C19_OneCartAfterRace ==
    \A p \in Procs, q \in Procs :
        ( /\ p # q
          /\ At(p, "CartPost", "done") /\ At(q, "CartPost", "done")
          /\ reqs[p].user_id = reqs[q].user_id )
        => Cardinality({i \in DOMAIN db.carts :
                          db.carts[i].user_id = reqs[p].user_id[1]}) <= 1

\* both requests of one user looked for the cart before either committed,
\* found none, went on to create one, and have finished
C19_Witness ==
    /\ \A p \in Procs : At(p, "CartPost", "done") /\ reqs[p].makes_cart
    /\ reqs["r1"].user_id = reqs["r2"].user_id

\* C20: no committed state holds two users with the same e-mail, and of
\* the concurrent Register requests carrying one e-mail at most one is
\* answered 201.
C20_OneUserPerEmail ==
    /\ \A i \in DOMAIN db.users, j \in DOMAIN db.users :
          db.users[i].email = db.users[j].email => i = j
    /\ \A p \in Procs, q \in Procs :
          ( /\ At(p, "Register", "done") /\ At(q, "Register", "done")
            /\ reqs[p].email = reqs[q].email
            /\ reqs[p].status = 201 /\ reqs[q].status = 201 )
          => p = q

\* two registrations with one e-mail both passed the existence check; one
\* was committed, the other failed on its INSERT
C20_Witness ==
    /\ At("r1", "Register", "done") /\ At("r2", "Register", "done")
    /\ reqs["r1"].email = reqs["r2"].email
    /\ {reqs["r1"].status, reqs["r2"].status} = {201, 500}

\* C21: the payment callback leaves the database as it was, whatever its
\* payload and result code, and a transaction stored as Pending is still
\* stored and Pending after any request.
C21_CallbackPersistsNothing ==
    [][ /\ resp'.op = "Callback" => db' = db
        /\ \A i \in DOMAIN db.transactions :
              db.transactions[i].status = "Pending"
              => /\ i \in DOMAIN db'.transactions
                 /\ db'.transactions[i].status = "Pending" ]_vars

\* a callback reporting success has been answered while a transaction is
\* Pending
C21_Witness ==
    /\ resp.op = "Callback" /\ resp.status = 200
    /\ resp.result_code = Some(0)
    /\ \E t \in Range(db.transactions) : t.status = "Pending"

\* C22: add_to_cart is all-or-nothing: a request of an authenticated user
\* that passes the field and book checks either stores an order together
\* with an association row of that order for its book (and a cart when the
\* user had none), or, when writing the association row fails, leaves the
\* database without the order and without a new cart.
C22_AllOrNothing ==
    [][ ( /\ resp'.op = "CartPost" /\ resp'.uid # None
          /\ ~FalsyInt(resp'.book_id) /\ ~FalsyInt(resp'.quantity)
          /\ resp'.book_id[1] \in Books )
        => \/ /\ resp'.status = 201
              /\ Len(db'.orders) = Len(db.orders) + 1
              /\ \E r \in db'.order_books :
                    /\ r.order_id = Some(db'.orders[Len(db'.orders)].id)
                    /\ r.book_id = resp'.book_id
           \/ /\ resp'.status = 500
              /\ db'.orders = db.orders
              /\ db'.carts = db.carts
              /\ db'.order_books = db.order_books ]_vars

\* the association row of an add_to_cart of a user without a cart could not
\* be written
C22_Witness ==
    /\ resp.op = "CartPost" /\ resp.uid # None /\ resp.status = 500
    /\ \A c \in Range(db.carts) : c.user_id # resp.uid[1]

\* C23: from the seeded data no request yields a user whose is_admin flag
\* is set: /admin_check never answers 200 and no admin listing is served.
C23_NoAdminFromSeed ==
    /\ \A u \in Range(db.users) : ~u.is_admin
    /\ resp.op = "AdminCheck" => resp.status # 200
    /\ resp.op \in {"AdminUserList", "AdminTransactionList",
                    "AdminBorrowingList"}
       => (resp.status # 200 /\ resp.body = None)

\* a user who registered and logged in has asked /admin_check and been
\* refused
C23_Witness ==
    /\ resp.op = "AdminCheck" /\ resp.status = 403
    /\ resp.uid # None /\ resp.uid[1] \notin 1..NumSeed

\* C24: no request changes a book's stock, price or availability flag, and
\* an add_to_cart of an authenticated user for an existing book and a
\* quantity larger than the book's stock succeeds.
C24_StockIgnored ==
    [][ /\ db'.books = db.books
        /\ ( /\ resp'.op = "CartPost" /\ resp'.uid # None
             /\ ~FalsyInt(resp'.book_id) /\ ~FalsyInt(resp'.quantity)
             /\ resp'.book_id[1] \in DOMAIN db.books
             /\ resp'.quantity[1] > db.books[resp'.book_id[1]].stock )
           => resp'.status = 201 ]_vars

\* C25: add_to_cart leaves the CartItem rows as they were, so the items of
\* every cart are the same before and after it, and a cart it creates has
\* no items.
C25_CartItemsUntouched ==
    [][ resp'.op = "CartPost"
        => /\ db'.cart_items = db.cart_items
           /\ \A c \in Range(db.carts) : Cart_items(db', c) = Cart_items(db, c)
           /\ \A i \in DOMAIN db'.carts \ DOMAIN db.carts :
                 Cart_items(db', db'.carts[i]) = {} ]_vars

\* an add_to_cart of a user whose cart holds items has been handled past
\* its checks
C25_Witness ==
    /\ resp.op = "CartPost" /\ resp.uid # None
    /\ resp.status \notin {400, 401, 404}
    /\ \E c \in Range(db.carts) :
          c.user_id = resp.uid[1] /\ Cart_items(db, c) # {}

\* C26: a request answered 400, 401, 403 or 404 by Register, Login,
\* CartResource, MpesaTransactionResource, admin_check or an admin listing
\* leaves users, carts, orders, association rows, transactions and
\* borrowings exactly as they were.
C26_ErrorsChangeNothing ==
    [][ ( /\ resp'.op \in {"Register", "Login", "CartGet", "CartPost",
                           "MpesaPost", "AdminCheck", "AdminUserList",
                           "AdminTransactionList", "AdminBorrowingList"}
          /\ resp'.status \in {400, 401, 403, 404} )
        => /\ db'.users = db.users
           /\ db'.carts = db.carts
           /\ db'.orders = db.orders
           /\ db'.order_books = db.order_books
           /\ db'.transactions = db.transactions
           /\ db'.borrowings = db.borrowings
           /\ db' = db ]_vars

\* a registration under a new name with the e-mail of an existing user has
\* been refused
C26_Witness ==
    /\ resp.op = "Register" /\ resp.status = 400
    /\ resp.error = "Email already exists"
    /\ \E u \in Range(db.users) :
          Some(u.email) = resp.email /\ Some(u.name) # resp.name

====
